---- MODULE Spec2Model ----
(***************************************************************************)
(* State-machine model of three e-paper panel drivers (Epd1in54 v2,        *)
(* Epd1in54b, Epd5in83 b v2) and of the bit-level helpers they use.        *)
(* A driver operation is compiled into the sequence of interface calls     *)
(* its code makes; the calls are then executed one by one against a bus    *)
(* that may fail and a busy line that the panel drives.                    *)
(***************************************************************************)
EXTENDS Integers, Sequences, FiniteSets, TLC

VARIABLES
    driver,            \* the driver type in use, "none" before new()
    alive,             \* TRUE once new() has returned an instance
    background_color,  \* self.background_color / self.color
    refresh,           \* self.refresh (Epd1in54 v2 only)
    op,                \* name of the running / last operation
    args,              \* its arguments
    script,            \* interface calls the operation still has to make
    trace,             \* events the operation has produced on the lines
    result,            \* "idle" (nothing called), "running", "ok", "err", "panic"
    waiting,           \* TRUE while inside wait_until_idle
    busyFor,           \* polls that will still read busy
    stuck,             \* TRUE when the busy line never reports idle
    pin,               \* level of the busy line: "high" or "low"
    polls,             \* polls of the current wait_until_idle that read busy
    bits,              \* input of expand_bits
    expanded,          \* its output, <<>> before it has run
    command,           \* two variants of the 7.5" V3 Command enum
    address,           \* their address(), <<>> before it has run
    refresh_at_call    \* self.refresh when the operation in progress was called

vars == <<driver, alive, background_color, refresh, op, args, script, trace,
          result, waiting, busyFor, stuck, pin, polls, bits, expanded, command,
          address, refresh_at_call>>

(***************************************************************************)
(* Bounds of the model.                                                    *)
(***************************************************************************)
MaxBuf == 2      \* longest pixel buffer handed to an operation
MaxX == 9        \* largest x of the small rectangles
MaxW == 9        \* largest width of the small rectangles
MaxY == 1        \* largest y of the small rectangles
MaxH == 1        \* largest height of the small rectangles
MaxPolls == 2    \* most polls of the busy line that read busy

(***************************************************************************)
(* Fixed-width integer arithmetic.                                         *)
(***************************************************************************)
Pow2(n) == 2 ^ n

\* `v as u8`
u8(v) == v % 256

\* `v >> n`
Shr(v, n) == v \div Pow2(n)

\* `v << n` on a w-bit unsigned integer
Shl(v, n, w) == (v * Pow2(n)) % Pow2(w)

\* `v << n` on a u32 whose top n bits are clear, as they are for every
\* coordinate of a panel (v < 2^29): no bit is shifted out
Shl32(v, n) == v * Pow2(n)

Bit(v, i) == (v \div Pow2(i)) % 2

RECURSIVE BitAnd(_, _)
BitAnd(a, b) ==
    IF a = 0 \/ b = 0 THEN 0
    ELSE (a % 2) * (b % 2) + 2 * BitAnd(a \div 2, b \div 2)

RECURSIVE BitOr(_, _)
BitOr(a, b) ==
    IF a = 0 THEN b
    ELSE IF b = 0 THEN a
    ELSE (IF a % 2 = 1 \/ b % 2 = 1 THEN 1 ELSE 0) + 2 * BitOr(a \div 2, b \div 2)

Byte == 0 .. 255

(***************************************************************************)
(* epd1in54b: expand_bits                                                  *)
(***************************************************************************)
\* Faulty variant: the two result bytes are returned low byte first.
expand_bits_low_first(b) ==
    LET x0 == b
        x1 == BitAnd(BitOr(x0, Shl(x0, 4, 16)), 3855)
        x2 == BitAnd(BitOr(x1, Shl(x1, 2, 16)), 13107)
        x3 == BitAnd(BitOr(x2, Shl(x2, 1, 16)), 21845)
        x4 == BitOr(x3, Shl(x3, 1, 16))
    IN  <<u8(BitAnd(x4, 255)), u8(Shr(x4, 8))>>

\* Faulty variant: the second spreading round (by 2, mask 0x3333) is left out.
expand_bits_no_round2(b) ==
    LET x0 == b
        x1 == BitAnd(BitOr(x0, Shl(x0, 4, 16)), 3855)
        x3 == BitAnd(BitOr(x1, Shl(x1, 1, 16)), 21845)
        x4 == BitOr(x3, Shl(x3, 1, 16))
    IN  <<u8(Shr(x4, 8)), u8(BitAnd(x4, 255))>>

expand_bits(b) ==
    LET x0 == b                                               \* bits as u16
        x1 == BitAnd(BitOr(x0, Shl(x0, 4, 16)), 3855)         \* & 0x0F0F
        x2 == BitAnd(BitOr(x1, Shl(x1, 2, 16)), 13107)        \* & 0x3333
        x3 == BitAnd(BitOr(x2, Shl(x2, 1, 16)), 21845)        \* & 0x5555
        x4 == BitOr(x3, Shl(x3, 1, 16))
    IN  <<u8(Shr(x4, 8)), u8(BitAnd(x4, 255))>>

(***************************************************************************)
(* Events on the lines and interface calls.  An interface call and the     *)
(* event it leaves in the trace are the same record.                       *)
(*   kind  "reset"  bytes = <<ms low, ms after>>                           *)
(*         "wait"   tag = polarity given to wait_until_idle                *)
(*         "delay"  n = ms                                                 *)
(*         "cmd"    cmd = the Command variant (command frame, DC low)      *)
(*         "data"   one data frame (DC high) of n bytes: bytes when they   *)
(*                  are known, tag = the constant table they come from     *)
(*         "fill"   one data frame of n bytes all equal to bytes[1]        *)
(*         "panic"  tag = the failed assertion                             *)
(***************************************************************************)
Ev(k, c, bs, n, t) == [kind |-> k, cmd |-> c, bytes |-> bs, n |-> n, tag |-> t]

\* DisplayInterface::reset(delay, duration_low, duration_after)
Reset(low, after) == Ev("reset", "", <<low, after>>, 0, "")

\* DisplayInterface::wait_until_idle(is_busy_low)
WaitUntilIdle(is_busy_low) ==
    Ev("wait", "", <<>>, 0, IF is_busy_low THEN "busy_low" ELSE "busy_high")

\* delay.delay_ms(ms)
DelayMs(ms) == Ev("delay", "", <<>>, ms, "")

\* DisplayInterface::cmd(spi, command)
Cmd(c) == Ev("cmd", c, <<>>, 0, "")

\* DisplayInterface::data(spi, data)
Data(bs) == Ev("data", "", bs, Len(bs), "")

\* DisplayInterface::data(spi, table[from .. to-1]) for a constant table
TableData(t, from, to) == Ev("data", "", <<>>, to - from, t)

\* DisplayInterface::data_x_times(spi, val, repetitions)
DataXTimes(val, n) == Ev("fill", "", <<val>>, n, "")

\* DisplayInterface::cmd_with_data(spi, command, data)
CmdWithData(c, bs) == <<Cmd(c), Data(bs)>>

CmdWithTable(c, t, from, to) == <<Cmd(c), TableData(t, from, to)>>

\* DisplayInterface::cmd_with_data(spi, command, TABLE) for a whole constant table,
\* whose length is set where the table is defined (n = -1: not known here)
CmdWithWholeTable(c, t) == <<Cmd(c), Ev("data", "", <<>>, -1, t)>>

\* assert!(..) that does not hold, unimplemented!()
Panic(what) == Ev("panic", "", <<>>, 0, what)

\* DisplayInterface::is_busy(is_busy_low) on a line at level p
InterfaceIsBusy(is_busy_low, p) ==
    (is_busy_low /\ p = "low") \/ (~is_busy_low /\ p = "high")

IsFrame(e) == e.kind \in {"cmd", "data", "fill"}
IsDataFrame(e) == e.kind \in {"data", "fill"}

(***************************************************************************)
(* Colours and refresh modes.                                              *)
(***************************************************************************)
Colors == {"White", "Black"}
RefreshLuts == {"Full", "Quick"}

\* Color::get_byte_value
get_byte_value(c) == IF c = "White" THEN 255 ELSE 0

\* TriColor::Black.get_byte_value()
TriColorBlackByte == 0

(***************************************************************************)
(* epd1in54_v2                                                             *)
(***************************************************************************)
Epd1in54_WIDTH == 200
Epd1in54_HEIGHT == 200
\* Faulty variant: the flag is copied from the active-low panels.
Epd1in54_IS_BUSY_LOW_as_b == TRUE

Epd1in54_IS_BUSY_LOW == FALSE

Epd1in54_wait_until_idle == <<WaitUntilIdle(Epd1in54_IS_BUSY_LOW)>>

\* Faulty variant: the window is transmitted first and checked afterwards.
Epd1in54_set_ram_area_late_assert(start_x, start_y, end_x, end_y) ==
    Epd1in54_wait_until_idle
    \o CmdWithData("SetRamXAddressStartEndPosition",
                   <<u8(Shr(start_x, 3)), u8(Shr(end_x, 3))>>)
    \o (IF ~(start_x < end_x) THEN <<Panic("start_x < end_x")>>
        ELSE IF ~(start_y < end_y) THEN <<Panic("start_y < end_y")>>
        ELSE CmdWithData("SetRamYAddressStartEndPosition",
                         <<u8(start_y), u8(Shr(start_y, 8)),
                           u8(end_y), u8(Shr(end_y, 8))>>))

\* Faulty variant: the assertions demand a window of at least two columns and rows.
Epd1in54_set_ram_area_strict_assert(start_x, start_y, end_x, end_y) ==
    Epd1in54_wait_until_idle
    \o (IF ~(start_x + 1 < end_x) THEN <<Panic("start_x < end_x")>>
        ELSE IF ~(start_y + 1 < end_y) THEN <<Panic("start_y < end_y")>>
        ELSE CmdWithData("SetRamXAddressStartEndPosition",
                         <<u8(Shr(start_x, 3)), u8(Shr(end_x, 3))>>)
             \o CmdWithData("SetRamYAddressStartEndPosition",
                            <<u8(start_y), u8(Shr(start_y, 8)),
                              u8(end_y), u8(Shr(end_y, 8))>>))

Epd1in54_set_ram_area(start_x, start_y, end_x, end_y) ==
    Epd1in54_wait_until_idle
    \o (IF ~(start_x < end_x) THEN <<Panic("start_x < end_x")>>
        ELSE IF ~(start_y < end_y) THEN <<Panic("start_y < end_y")>>
        ELSE CmdWithData("SetRamXAddressStartEndPosition",
                         <<u8(Shr(start_x, 3)), u8(Shr(end_x, 3))>>)
             \o CmdWithData("SetRamYAddressStartEndPosition",
                            <<u8(start_y), u8(Shr(start_y, 8)),
                              u8(end_y), u8(Shr(end_y, 8))>>))

\* Faulty variant: the Y counter is sent high byte first.
Epd1in54_set_ram_counter_swapped(x, y) ==
    Epd1in54_wait_until_idle
    \o CmdWithData("SetRamXAddressCounter", <<u8(Shr(x, 3))>>)
    \o CmdWithData("SetRamYAddressCounter", <<u8(Shr(y, 8)), u8(y)>>)

Epd1in54_set_ram_counter(x, y) ==
    Epd1in54_wait_until_idle
    \o CmdWithData("SetRamXAddressCounter", <<u8(Shr(x, 3))>>)
    \o CmdWithData("SetRamYAddressCounter", <<u8(y), u8(Shr(y, 8))>>)

Epd1in54_use_full_frame ==
    Epd1in54_set_ram_area(0, 0, Epd1in54_WIDTH - 1, Epd1in54_HEIGHT - 1)
    \o Epd1in54_set_ram_counter(0, 0)

\* Faulty variant: the controller is addressed before the hardware reset.
Epd1in54_init_reset_late ==
    Epd1in54_wait_until_idle
    \o <<Cmd("SwReset"), Reset(10, 10)>>
    \o Epd1in54_wait_until_idle
    \o CmdWithData("DriverOutputControl", <<u8(Epd1in54_HEIGHT - 1), 0, 0>>)
    \o CmdWithData("DataEntryModeSetting", <<3>>)
    \o Epd1in54_set_ram_area(0, 0, Epd1in54_WIDTH - 1, Epd1in54_HEIGHT - 1)
    \o CmdWithData("BorderWaveformControl", <<1>>)
    \o CmdWithData("TemperatureSensorSelection", <<128>>)
    \o CmdWithData("TemperatureSensorControl", <<177, 32>>)
    \o Epd1in54_set_ram_counter(0, 0)
    \o Epd1in54_wait_until_idle

Epd1in54_init ==
    <<Reset(10, 10)>>
    \o Epd1in54_wait_until_idle
    \o <<Cmd("SwReset")>>
    \o Epd1in54_wait_until_idle
    \o CmdWithData("DriverOutputControl", <<u8(Epd1in54_HEIGHT - 1), 0, 0>>)
    \o CmdWithData("DataEntryModeSetting", <<3>>)
    \o Epd1in54_set_ram_area(0, 0, Epd1in54_WIDTH - 1, Epd1in54_HEIGHT - 1)
    \o CmdWithData("BorderWaveformControl", <<1>>)
    \o CmdWithData("TemperatureSensorSelection", <<128>>)
    \o CmdWithData("TemperatureSensorControl", <<177, 32>>)
    \o Epd1in54_set_ram_counter(0, 0)
    \o Epd1in54_wait_until_idle

Epd1in54_sleep ==
    Epd1in54_wait_until_idle
    \o CmdWithData("DeepSleepMode", <<0>>)

Epd1in54_update_frame(buffer) ==
    Epd1in54_wait_until_idle
    \o Epd1in54_use_full_frame
    \o CmdWithData("WriteRam", buffer)

Epd1in54_update_partial_frame(buffer, x, y, width, height) ==
    Epd1in54_wait_until_idle
    \o Epd1in54_set_ram_area(x, y, x + width, y + height)
    \o Epd1in54_set_ram_counter(x, y)
    \o CmdWithData("WriteRam", buffer)

\* Faulty variant: the driver waits for the refresh before it sends the terminating Nop.
Epd1in54_display_frame_waits(self_refresh) ==
    Epd1in54_wait_until_idle
    \o (IF self_refresh = "Full" THEN CmdWithData("DisplayUpdateControl2", <<199>>)
        ELSE IF self_refresh = "Quick" THEN CmdWithData("DisplayUpdateControl2", <<207>>)
        ELSE <<>>)
    \o <<Cmd("MasterActivation")>>
    \o Epd1in54_wait_until_idle
    \o <<Cmd("Nop")>>

Epd1in54_display_frame(self_refresh) ==
    Epd1in54_wait_until_idle
    \o (IF self_refresh = "Full" THEN CmdWithData("DisplayUpdateControl2", <<199>>)
        ELSE IF self_refresh = "Quick" THEN CmdWithData("DisplayUpdateControl2", <<207>>)
        ELSE <<>>)
    \o <<Cmd("MasterActivation"), Cmd("Nop")>>

Epd1in54_update_and_display_frame(buffer, self_refresh) ==
    Epd1in54_update_frame(buffer) \o Epd1in54_display_frame(self_refresh)

\* Faulty variant: the planes are flooded with one byte per pixel.
Epd1in54_clear_frame_per_pixel(self_background_color) ==
    LET color == get_byte_value(self_background_color)
    IN  Epd1in54_wait_until_idle
        \o Epd1in54_use_full_frame
        \o <<Cmd("WriteRam"),
             DataXTimes(color, Epd1in54_WIDTH * Epd1in54_HEIGHT),
             Cmd("WriteRam2"),
             DataXTimes(color, Epd1in54_WIDTH * Epd1in54_HEIGHT)>>

Epd1in54_clear_frame(self_background_color) ==
    LET color == get_byte_value(self_background_color)
    IN  Epd1in54_wait_until_idle
        \o Epd1in54_use_full_frame
        \o <<Cmd("WriteRam"),
             DataXTimes(color, (Epd1in54_WIDTH \div 8) * Epd1in54_HEIGHT),
             Cmd("WriteRam2"),
             DataXTimes(color, (Epd1in54_WIDTH \div 8) * Epd1in54_HEIGHT)>>

Epd1in54_set_lut_helper(lut) ==
    Epd1in54_wait_until_idle
    \o CmdWithTable("WriteLutRegister", lut, 0, 153)
    \o CmdWithTable("WriteLutRegisterEnd", lut, 153, 154)
    \o Epd1in54_wait_until_idle
    \o CmdWithTable("GateDrivingVoltage", lut, 154, 155)
    \o CmdWithTable("SourceDrivingVoltage", lut, 155, 158)
    \o CmdWithTable("WriteVcomRegister", lut, 158, 159)

\* Faulty variant: set_lut never stores the refresh mode it is given.
Epd1in54_set_lut_refresh_kept(refresh_rate, self_refresh) == self_refresh

\* self.refresh as set_lut leaves it
Epd1in54_set_lut_refresh(refresh_rate, self_refresh) ==
    IF refresh_rate = "None" THEN self_refresh ELSE refresh_rate

Epd1in54_set_lut(refresh_rate, self_refresh) ==
    LET r == Epd1in54_set_lut_refresh(refresh_rate, self_refresh)
    IN  Epd1in54_set_lut_helper(IF r = "Full" THEN "LUT_FULL_UPDATE"
                                ELSE "LUT_PARTIAL_UPDATE")
        \o (IF r = "Quick"
            THEN CmdWithData("WriteOtpSelection", <<0, 0, 0, 0, 0, 64, 0, 0, 0, 0>>)
                 \o CmdWithData("BorderWaveformControl", <<128>>)
                 \o CmdWithData("DisplayUpdateControl2", <<192>>)
                 \o <<Cmd("MasterActivation"), Cmd("Nop")>>
            ELSE <<>>)

(***************************************************************************)
(* epd1in54b                                                               *)
(***************************************************************************)
Epd1in54b_WIDTH == 200
Epd1in54b_HEIGHT == 200
Epd1in54b_IS_BUSY_LOW == TRUE

Epd1in54b_wait_until_idle == <<WaitUntilIdle(Epd1in54b_IS_BUSY_LOW)>>

Epd1in54b_send_resolution ==
    LET w == Epd1in54b_WIDTH
        h == Epd1in54b_HEIGHT
    IN  <<Cmd("ResolutionSetting"),
          Data(<<u8(w)>>), Data(<<u8(Shr(h, 8))>>), Data(<<u8(h)>>)>>

Epd1in54b_set_lut ==
    CmdWithWholeTable("LutForVcom", "LUT_VCOM0")
    \o CmdWithWholeTable("LutWhiteToWhite", "LUT_WHITE_TO_WHITE")
    \o CmdWithWholeTable("LutBlackToWhite", "LUT_BLACK_TO_WHITE")
    \o CmdWithWholeTable("LutG0", "LUT_G1")
    \o CmdWithWholeTable("LutG1", "LUT_G2")
    \o CmdWithWholeTable("LutRedVcom", "LUT_RED_VCOM")
    \o CmdWithWholeTable("LutRed0", "LUT_RED0")
    \o CmdWithWholeTable("LutRed1", "LUT_RED1")

Epd1in54b_init ==
    <<Reset(10, 10)>>
    \o CmdWithData("PowerSetting", <<7, 0, 8, 0>>)
    \o CmdWithData("BoosterSoftStart", <<7, 7, 7>>)
    \o <<Cmd("PowerOn"), DelayMs(5)>>
    \o Epd1in54b_wait_until_idle
    \o CmdWithData("PanelSetting", <<207>>)
    \o CmdWithData("VcomAndDataIntervalSetting", <<55>>)
    \o CmdWithData("PllControl", <<57>>)
    \o Epd1in54b_send_resolution
    \o CmdWithData("VcmDcSetting", <<14>>)
    \o Epd1in54b_set_lut
    \o Epd1in54b_wait_until_idle

Epd1in54b_update_achromatic_frame(black) ==
    Epd1in54b_wait_until_idle
    \o Epd1in54b_send_resolution
    \o <<Cmd("DataStartTransmission1")>>
    \o [i \in 1 .. Len(black) |-> Data(expand_bits(black[i]))]

\* Faulty variant: the plane is sent before the command that announces it.
Epd1in54b_update_chromatic_frame_data_first(chromatic) ==
    <<Data(chromatic), Cmd("DataStartTransmission2")>>

Epd1in54b_update_chromatic_frame(chromatic) ==
    <<Cmd("DataStartTransmission2"), Data(chromatic)>>

Epd1in54b_update_color_frame(black, chromatic) ==
    Epd1in54b_update_achromatic_frame(black)
    \o Epd1in54b_update_chromatic_frame(chromatic)

Epd1in54b_sleep ==
    Epd1in54b_wait_until_idle
    \o CmdWithData("VcomAndDataIntervalSetting", <<23>>)
    \o CmdWithData("VcmDcSetting", <<0>>)
    \o CmdWithData("PowerSetting", <<2, 0, 0, 0>>)
    \o Epd1in54b_wait_until_idle
    \o <<Cmd("PowerOff")>>

\* Faulty variant: the chromatic plane is counted in pixels, not in bytes.
Epd1in54b_update_frame_nbits_pixels(buffer, self_color) ==
    LET color == get_byte_value(self_color)
        nbits == Epd1in54b_WIDTH * Epd1in54b_HEIGHT
    IN  Epd1in54b_wait_until_idle
        \o Epd1in54b_send_resolution
        \o <<Cmd("DataStartTransmission1")>>
        \o [i \in 1 .. Len(buffer) |-> Data(expand_bits(buffer[i]))]
        \o <<Cmd("DataStartTransmission2"), DataXTimes(color, nbits)>>

Epd1in54b_update_frame(buffer, self_color) ==
    LET color == get_byte_value(self_color)
        nbits == Epd1in54b_WIDTH * (Epd1in54b_HEIGHT \div 8)
    IN  Epd1in54b_wait_until_idle
        \o Epd1in54b_send_resolution
        \o <<Cmd("DataStartTransmission1")>>
        \o [i \in 1 .. Len(buffer) |-> Data(expand_bits(buffer[i]))]
        \o <<Cmd("DataStartTransmission2"), DataXTimes(color, nbits)>>

Epd1in54b_update_partial_frame == <<Panic("unimplemented")>>

Epd1in54b_display_frame ==
    Epd1in54b_wait_until_idle \o <<Cmd("DisplayRefresh")>>

\* Faulty variant: the refresh is started before the frame is written.
Epd1in54b_update_and_display_frame_refresh_first(buffer, self_color) ==
    Epd1in54b_display_frame \o Epd1in54b_update_frame(buffer, self_color)

Epd1in54b_update_and_display_frame(buffer, self_color) ==
    Epd1in54b_update_frame(buffer, self_color) \o Epd1in54b_display_frame

Epd1in54b_clear_frame ==
    LET color == get_byte_value("White")      \* DEFAULT_BACKGROUND_COLOR
    IN  Epd1in54b_wait_until_idle
        \o Epd1in54b_send_resolution
        \o <<Cmd("DataStartTransmission1"),
             DataXTimes(color, 2 * ((Epd1in54b_WIDTH * Epd1in54b_HEIGHT) \div 8)),
             Cmd("DataStartTransmission2"),
             DataXTimes(color, (Epd1in54b_WIDTH * Epd1in54b_HEIGHT) \div 8)>>

(***************************************************************************)
(* epd5in83b_v2                                                            *)
(***************************************************************************)
Epd5in83_WIDTH == 648
Epd5in83_HEIGHT == 480
Epd5in83_IS_BUSY_LOW == TRUE
Epd5in83_NUM_DISPLAY_BITS == (Epd5in83_WIDTH * Epd5in83_HEIGHT) \div 8

Epd5in83_wait_until_idle == <<WaitUntilIdle(Epd5in83_IS_BUSY_LOW)>>

\* Faulty variant: each dimension is sent low byte first.
Epd5in83_send_resolution_low_first ==
    LET w == Epd5in83_WIDTH
        h == Epd5in83_HEIGHT
    IN  <<Cmd("TconResolution"),
          Data(<<u8(w)>>), Data(<<u8(Shr(w, 8))>>),
          Data(<<u8(h)>>), Data(<<u8(Shr(h, 8))>>)>>

Epd5in83_send_resolution ==
    LET w == Epd5in83_WIDTH
        h == Epd5in83_HEIGHT
    IN  <<Cmd("TconResolution"),
          Data(<<u8(Shr(w, 8))>>), Data(<<u8(w)>>),
          Data(<<u8(Shr(h, 8))>>), Data(<<u8(h)>>)>>

Epd5in83_init ==
    <<Reset(10, 10)>>
    \o CmdWithData("BoosterSoftStart", <<23, 23, 30, 23>>)
    \o CmdWithData("PowerSetting", <<7, 7, 63, 63>>)
    \o <<Cmd("PowerOn"), DelayMs(5)>>
    \o Epd5in83_wait_until_idle
    \o CmdWithData("PanelSetting", <<15>>)
    \o Epd5in83_send_resolution
    \o CmdWithData("DualSPI", <<0>>)
    \o CmdWithData("VcomAndDataIntervalSetting", <<17, 7>>)
    \o CmdWithData("TconSetting", <<34>>)
    \o Epd5in83_wait_until_idle

Epd5in83_update_achromatic_frame(black) ==
    Epd5in83_wait_until_idle
    \o CmdWithData("DataStartTransmission1", black)

Epd5in83_update_chromatic_frame(chromatic) ==
    Epd5in83_wait_until_idle
    \o CmdWithData("DataStartTransmission2", chromatic)

Epd5in83_update_color_frame(black, chromatic) ==
    Epd5in83_update_achromatic_frame(black)
    \o Epd5in83_update_chromatic_frame(chromatic)

Epd5in83_sleep ==
    Epd5in83_wait_until_idle
    \o <<Cmd("PowerOff")>>
    \o Epd5in83_wait_until_idle
    \o CmdWithData("DeepSleep", <<165>>)

Epd5in83_update_frame(buffer, self_color) ==
    LET color == get_byte_value(self_color)
    IN  Epd5in83_wait_until_idle
        \o Epd5in83_update_achromatic_frame(buffer)
        \o <<Cmd("DataStartTransmission2"),
             DataXTimes(color, Epd5in83_NUM_DISPLAY_BITS)>>

\* the nine data bytes of the PartialWindow command
Epd5in83_partial_window(x, y, width, height) ==
    LET hrst_upper == Shr(u8(x \div 8), 6)
        hrst_lower == u8(Shl32(x \div 8, 3))
        hred_upper == Shr(u8((x + width) \div 8), 6)
        hred_lower == BitAnd(u8(Shl32((x + width) \div 8, 3)), 7)
        vrst_upper == u8(Shr(y, 8))
        vrst_lower == u8(y)
        vred_upper == u8(Shr(y + height, 8))
        vred_lower == u8(y + height)
        pt_scan == 1
    IN  <<hrst_upper, hrst_lower, hred_upper, hred_lower, vrst_upper,
          vrst_lower, vred_upper, vred_lower, pt_scan>>

Epd5in83_update_partial_frame(buffer, x, y, width, height) ==
    LET color == TriColorBlackByte
    IN  Epd5in83_wait_until_idle
        \o <<Cmd("PartialIn"), Cmd("PartialWindow"),
             Data(Epd5in83_partial_window(x, y, width, height)),
             Cmd("DataStartTransmission1"), Data(buffer),
             Cmd("DataStartTransmission2"),
             DataXTimes(color, (width * height) \div 8),
             Cmd("DisplayRefresh")>>
        \o Epd5in83_wait_until_idle
        \o <<Cmd("PartialOut")>>

Epd5in83_display_frame ==
    <<Cmd("DisplayRefresh")>> \o Epd5in83_wait_until_idle

Epd5in83_update_and_display_frame(buffer, self_color) ==
    Epd5in83_update_frame(buffer, self_color) \o Epd5in83_display_frame

Epd5in83_clear_frame ==
    Epd5in83_wait_until_idle
    \o <<Cmd("DataStartTransmission1"),
         DataXTimes(255, Epd5in83_NUM_DISPLAY_BITS),
         Cmd("DataStartTransmission2"),
         DataXTimes(0, Epd5in83_NUM_DISPLAY_BITS)>>

Epd5in83_set_lut == <<Panic("unimplemented")>>

(***************************************************************************)
(* epd7in5_v3: the Command enum and its address()                          *)
(***************************************************************************)
\* the discriminant declared for each variant
Command ==
    [PanelSetting |-> 0,                    \* 0x00
     PowerSetting |-> 1,                    \* 0x01
     PowerOff |-> 2,                        \* 0x02
     PowerOffSequenceSetting |-> 3,         \* 0x03
     PowerOn |-> 4,                         \* 0x04
     BoosterSoftStart |-> 6,                \* 0x06
     DeepSleep |-> 7,                       \* 0x07
     DataStartTransmission1 |-> 16,         \* 0x10
     DataStop |-> 17,                       \* 0x11
     DisplayRefresh |-> 18,                 \* 0x12
     DataStartTransmission2 |-> 19,         \* 0x13
     DualSpi |-> 21,                        \* 0x15
     LutForVcom |-> 32,                     \* 0x20
     LutBlack |-> 33,                       \* 0x21
     LutWhite |-> 34,                       \* 0x22
     LutGray1 |-> 35,                       \* 0x23
     LutGray2 |-> 36,                       \* 0x24
     LutRed0 |-> 37,                        \* 0x25
     LutRed1 |-> 38,                        \* 0x26
     LutRed2 |-> 39,                        \* 0x27
     LutRed3 |-> 40,                        \* 0x28
     LutXon |-> 41,                         \* 0x29
     PllControl |-> 48,                     \* 0x30
     TemperatureSensor |-> 64,              \* 0x40
     TemperatureCalibration |-> 65,         \* 0x41
     TemperatureSensorWrite |-> 66,         \* 0x42
     TemperatureSensorRead |-> 67,          \* 0x43
     VcomAndDataIntervalSetting |-> 80,     \* 0x50
     LowPowerDetection |-> 81,              \* 0x51
     TconSetting |-> 96,                    \* 0x60
     TconResolution |-> 97,                 \* 0x61
     SpiFlashControl |-> 101,               \* 0x65
     Revision |-> 112,                      \* 0x70
     GetStatus |-> 113,                     \* 0x71
     AutoMeasurementVcom |-> 128,           \* 0x80
     ReadVcomValue |-> 129,                 \* 0x81
     VcmDcSetting |-> 130]                     \* 0x82

Commands == DOMAIN Command

\* Faulty variant: the cast keeps only seven bits of the discriminant.
address_of_seven_bits(c) == Command[c] % 128

\* Command::address: `self as u8`
address_of(c) == u8(Command[c])

(***************************************************************************)
(* Inputs of the operations.                                               *)
(***************************************************************************)
Drivers == {"Epd1in54", "Epd1in54b", "Epd5in83"}

ThreeColorDrivers == {"Epd1in54b", "Epd5in83"}

\* width() and height()
width(d) ==
    CASE d = "Epd1in54" -> Epd1in54_WIDTH
      [] d = "Epd1in54b" -> Epd1in54b_WIDTH
      [] d = "Epd5in83" -> Epd5in83_WIDTH

height(d) ==
    CASE d = "Epd1in54" -> Epd1in54_HEIGHT
      [] d = "Epd1in54b" -> Epd1in54b_HEIGHT
      [] d = "Epd5in83" -> Epd5in83_HEIGHT

IS_BUSY_LOW(d) ==
    CASE d = "Epd1in54" -> Epd1in54_IS_BUSY_LOW
      [] d = "Epd1in54b" -> Epd1in54b_IS_BUSY_LOW
      [] d = "Epd5in83" -> Epd5in83_IS_BUSY_LOW

BufBytes == {0, 165}

Buffers == UNION {[1 .. n -> BufBytes] : n \in 0 .. MaxBuf}

\* buffers handed to update_partial_frame
PartialBuffers == {b \in Buffers : Len(b) <= 1}

Rect(x, y, w, h) == [x |-> x, y |-> y, width |-> w, height |-> h]

\* rectangles at the origin of the panel, degenerate ones included
SmallRects ==
    {Rect(x, y, w, h) : x \in 0 .. MaxX, y \in 0 .. MaxY,
                        w \in 0 .. MaxW, h \in 0 .. MaxH}

\* rectangles that end at the far corner of the panel, and the whole panel
FarRects(d) ==
    {Rect(width(d) - w, height(d) - h, w, h) : w \in 0 .. MaxW, h \in 0 .. MaxH}
    \cup {Rect(0, 0, width(d), height(d))}

Rects(d) == SmallRects \cup FarRects(d)

InPanel(d, r) == r.x + r.width <= width(d) /\ r.y + r.height <= height(d)

NoArgs ==
    [buffer |-> <<>>, chromatic |-> <<>>, rect |-> Rect(0, 0, 0, 0),
     color |-> "White", refresh_rate |-> "None"]

(***************************************************************************)
(* The interface calls of operation name of driver d, called with          *)
(* arguments a on an instance whose fields are bg and rf.                  *)
(***************************************************************************)
Epd1in54_script(name, a, bg, rf) ==
    CASE name \in {"new", "wake_up"} -> Epd1in54_init
      [] name = "sleep" -> Epd1in54_sleep
      [] name = "update_frame" -> Epd1in54_update_frame(a.buffer)
      [] name = "update_partial_frame" ->
            Epd1in54_update_partial_frame(a.buffer, a.rect.x, a.rect.y,
                                          a.rect.width, a.rect.height)
      [] name = "display_frame" -> Epd1in54_display_frame(rf)
      [] name = "update_and_display_frame" ->
            Epd1in54_update_and_display_frame(a.buffer, rf)
      [] name = "clear_frame" -> Epd1in54_clear_frame(bg)
      [] name = "set_lut" -> Epd1in54_set_lut(a.refresh_rate, rf)

Epd1in54b_script(name, a, bg) ==
    CASE name \in {"new", "wake_up"} -> Epd1in54b_init
      [] name = "sleep" -> Epd1in54b_sleep
      [] name = "update_frame" -> Epd1in54b_update_frame(a.buffer, bg)
      [] name = "update_partial_frame" -> Epd1in54b_update_partial_frame
      [] name = "display_frame" -> Epd1in54b_display_frame
      [] name = "update_and_display_frame" ->
            Epd1in54b_update_and_display_frame(a.buffer, bg)
      [] name = "clear_frame" -> Epd1in54b_clear_frame
      [] name = "set_lut" -> Epd1in54b_set_lut
      [] name = "update_color_frame" ->
            Epd1in54b_update_color_frame(a.buffer, a.chromatic)
      [] name = "update_achromatic_frame" ->
            Epd1in54b_update_achromatic_frame(a.buffer)
      [] name = "update_chromatic_frame" ->
            Epd1in54b_update_chromatic_frame(a.chromatic)

Epd5in83_script(name, a, bg) ==
    CASE name \in {"new", "wake_up"} -> Epd5in83_init
      [] name = "sleep" -> Epd5in83_sleep
      [] name = "update_frame" -> Epd5in83_update_frame(a.buffer, bg)
      [] name = "update_partial_frame" ->
            Epd5in83_update_partial_frame(a.buffer, a.rect.x, a.rect.y,
                                          a.rect.width, a.rect.height)
      [] name = "display_frame" -> Epd5in83_display_frame
      [] name = "update_and_display_frame" ->
            Epd5in83_update_and_display_frame(a.buffer, bg)
      [] name = "clear_frame" -> Epd5in83_clear_frame
      [] name = "set_lut" -> Epd5in83_set_lut
      [] name = "update_color_frame" ->
            Epd5in83_update_color_frame(a.buffer, a.chromatic)
      [] name = "update_achromatic_frame" ->
            Epd5in83_update_achromatic_frame(a.buffer)
      [] name = "update_chromatic_frame" ->
            Epd5in83_update_chromatic_frame(a.chromatic)

ScriptOf(d, name, a, bg, rf) ==
    CASE d = "Epd1in54" -> Epd1in54_script(name, a, bg, rf)
      [] d = "Epd1in54b" -> Epd1in54b_script(name, a, bg)
      [] d = "Epd5in83" -> Epd5in83_script(name, a, bg)

(***************************************************************************)
(* The state machine.                                                      *)
(***************************************************************************)
Init ==
    /\ driver = "none"
    /\ alive = FALSE
    /\ background_color = "White"
    /\ refresh = "Full"
    /\ op = "none"
    /\ args = NoArgs
    /\ script = <<>>
    /\ trace = <<>>
    /\ result = "idle"
    /\ waiting = FALSE
    /\ busyFor = 0
    /\ stuck = FALSE
    /\ pin = "low"
    /\ polls = 0
    /\ bits = 0
    /\ expanded = <<>>
    /\ command = <<>>
    /\ address = <<>>
    /\ refresh_at_call = "Full"

\* the caller holds an instance and has no operation in progress
Callable == alive /\ result = "idle"

\* operation name starts on the instance, with arguments a
Begin(name, a) ==
    /\ op' = name
    /\ args' = a
    /\ script' = ScriptOf(driver, name, a, background_color, refresh)
    /\ trace' = <<>>
    /\ result' = "running"
    /\ UNCHANGED <<driver, alive, background_color, refresh, waiting, busyFor, polls,
                   stuck, pin, bits, expanded, command, address, refresh_at_call>>

\* new(): the struct is built with the default colour and Full refresh, then init
New ==
    /\ ~alive
    /\ result = "idle"
    /\ \E d \in Drivers :
          /\ driver' = d
          /\ background_color' = "White"
          /\ refresh' = "Full"
          /\ op' = "new"
          /\ args' = NoArgs
          /\ script' = ScriptOf(d, "new", NoArgs, "White", "Full")
          /\ trace' = <<>>
          /\ result' = "running"
    /\ UNCHANGED <<alive, waiting, busyFor, polls, stuck, pin, bits, expanded, command,
                   address, refresh_at_call>>

WakeUp == Callable /\ Begin("wake_up", NoArgs)

Sleep == Callable /\ Begin("sleep", NoArgs)

UpdateFrame ==
    /\ Callable
    /\ \E b \in Buffers : Begin("update_frame", [NoArgs EXCEPT !.buffer = b])

UpdatePartialFrame ==
    /\ Callable
    /\ \E b \in PartialBuffers, r \in Rects(driver) :
          /\ InPanel(driver, r)
          /\ Begin("update_partial_frame", [NoArgs EXCEPT !.buffer = b, !.rect = r])

DisplayFrame == Callable /\ Begin("display_frame", NoArgs)

UpdateAndDisplayFrame ==
    /\ Callable
    /\ \E b \in Buffers :
          Begin("update_and_display_frame", [NoArgs EXCEPT !.buffer = b])

ClearFrame == Callable /\ Begin("clear_frame", NoArgs)

\* Faulty variant: the colour given to set_background_color is not stored.
SetBackgroundColor_dropped ==
    /\ Callable
    /\ \E c \in Colors : args' = [NoArgs EXCEPT !.color = c]
    /\ op' = "set_background_color"
    /\ script' = <<>>
    /\ trace' = <<>>
    /\ result' = "ok"
    /\ UNCHANGED <<driver, alive, background_color, refresh, waiting, busyFor, polls,
                   stuck, pin, bits, expanded, command, address, refresh_at_call>>

\* set_background_color touches no line: it is done when it is called
SetBackgroundColor ==
    /\ Callable
    /\ \E c \in Colors :
          /\ background_color' = c
          /\ args' = [NoArgs EXCEPT !.color = c]
    /\ op' = "set_background_color"
    /\ script' = <<>>
    /\ trace' = <<>>
    /\ result' = "ok"
    /\ UNCHANGED <<driver, alive, refresh, waiting, busyFor, polls, stuck, pin, bits,
                   expanded, command, address, refresh_at_call>>

\* set_lut: Epd1in54 stores the refresh mode before it transmits anything
SetLut ==
    /\ Callable
    /\ \E rr \in RefreshLuts \cup {"None"} :
          LET a == [NoArgs EXCEPT !.refresh_rate = rr]
              rf == IF driver = "Epd1in54"
                    THEN Epd1in54_set_lut_refresh(rr, refresh) ELSE refresh
          IN  /\ refresh' = rf
              /\ op' = "set_lut"
              /\ args' = a
              /\ script' = ScriptOf(driver, "set_lut", a, background_color, refresh)
              /\ trace' = <<>>
              /\ result' = "running"
    /\ refresh_at_call' = refresh
    /\ UNCHANGED <<driver, alive, background_color, waiting, busyFor, polls, stuck, pin,
                   bits, expanded, command, address>>

UpdateColorFrame ==
    /\ Callable
    /\ driver \in ThreeColorDrivers
    /\ \E b \in Buffers, c \in Buffers :
          Begin("update_color_frame", [NoArgs EXCEPT !.buffer = b, !.chromatic = c])

UpdateAchromaticFrame ==
    /\ Callable
    /\ driver \in ThreeColorDrivers
    /\ \E b \in Buffers :
          Begin("update_achromatic_frame", [NoArgs EXCEPT !.buffer = b])

UpdateChromaticFrame ==
    /\ Callable
    /\ driver \in ThreeColorDrivers
    /\ \E c \in Buffers :
          Begin("update_chromatic_frame", [NoArgs EXCEPT !.chromatic = c])

Running == result = "running" /\ script # <<>>

\* the line level at which the panel of driver d signals busy / idle
BusyLevel(d) == IF IS_BUSY_LOW(d) THEN "low" ELSE "high"
IdleLevel(d) == IF IS_BUSY_LOW(d) THEN "high" ELSE "low"

\* DisplayInterface::reset
DoReset ==
    /\ Running
    /\ Head(script).kind = "reset"
    /\ trace' = Append(trace, Head(script))
    /\ script' = Tail(script)
    /\ UNCHANGED <<driver, alive, background_color, refresh, op, args, result,
                   waiting, busyFor, polls, stuck, pin, bits, expanded, command,
                   address, refresh_at_call>>

\* delay.delay_ms
DoDelay ==
    /\ Running
    /\ Head(script).kind = "delay"
    /\ trace' = Append(trace, Head(script))
    /\ script' = Tail(script)
    /\ UNCHANGED <<driver, alive, background_color, refresh, op, args, result,
                   waiting, busyFor, polls, stuck, pin, bits, expanded, command,
                   address, refresh_at_call>>

\* wait_until_idle is entered; the panel stays busy for some polls
WaitBegin ==
    /\ Running
    /\ Head(script).kind = "wait"
    /\ ~waiting
    /\ waiting' = TRUE
    /\ stuck' = FALSE
    /\ polls' = 0
    /\ \E n \in 0 .. MaxPolls :
          /\ busyFor' = n
          /\ pin' = IF n > 0 THEN BusyLevel(driver) ELSE IdleLevel(driver)
    /\ UNCHANGED <<driver, alive, background_color, refresh, op, args, script,
                   trace, result, bits, expanded, command, address, refresh_at_call>>

\* wait_until_idle is entered on a line that never reports idle
WaitBeginStuck ==
    /\ Running
    /\ Head(script).kind = "wait"
    /\ ~waiting
    /\ waiting' = TRUE
    /\ stuck' = TRUE
    /\ polls' = 0
    /\ busyFor' = 0
    /\ pin' = BusyLevel(driver)
    /\ UNCHANGED <<driver, alive, background_color, refresh, op, args, script,
                   trace, result, bits, expanded, command, address, refresh_at_call>>

\* Faulty variant: the loop gives up on a line that stays busy.
PollBusy_gives_up ==
    /\ Running
    /\ waiting
    /\ InterfaceIsBusy(Head(script).tag = "busy_low", pin)
    /\ IF stuck
       THEN /\ waiting' = FALSE
            /\ script' = Tail(script)
            /\ UNCHANGED <<busyFor, pin, polls>>
       ELSE /\ busyFor' = busyFor - 1
            /\ polls' = polls + 1
            /\ pin' = IF busyFor - 1 > 0 THEN BusyLevel(driver) ELSE IdleLevel(driver)
            /\ UNCHANGED <<waiting, script>>
    /\ UNCHANGED <<driver, alive, background_color, refresh, op, args,
                   trace, result, stuck, bits, expanded, command,
                   address, refresh_at_call>>

\* one poll of the loop in wait_until_idle reads busy
PollBusy ==
    /\ Running
    /\ waiting
    /\ InterfaceIsBusy(Head(script).tag = "busy_low", pin)
    /\ IF stuck
       THEN UNCHANGED <<busyFor, pin, polls>>
       ELSE /\ busyFor' = busyFor - 1
            /\ polls' = polls + 1
            /\ pin' = IF busyFor - 1 > 0 THEN BusyLevel(driver) ELSE IdleLevel(driver)
    /\ UNCHANGED <<driver, alive, background_color, refresh, op, args, script,
                   trace, result, waiting, stuck, bits, expanded, command,
                   address, refresh_at_call>>

\* one poll reads idle: wait_until_idle returns
PollIdle ==
    /\ Running
    /\ waiting
    /\ ~InterfaceIsBusy(Head(script).tag = "busy_low", pin)
    /\ waiting' = FALSE
    /\ polls' = 0
    /\ trace' = Append(trace, Head(script))
    /\ script' = Tail(script)
    /\ UNCHANGED <<driver, alive, background_color, refresh, op, args, result,
                   busyFor, stuck, pin, bits, expanded, command,
                   address, refresh_at_call>>

\* the bus accepts the frame
SendOk ==
    /\ Running
    /\ IsFrame(Head(script))
    /\ trace' = Append(trace, Head(script))
    /\ script' = Tail(script)
    /\ UNCHANGED <<driver, alive, background_color, refresh, op, args, result,
                   waiting, busyFor, polls, stuck, pin, bits, expanded, command,
                   address, refresh_at_call>>

\* Faulty variant: the error of the transmit is dropped and the operation goes on.
SendFail_ignored ==
    /\ Running
    /\ IsFrame(Head(script))
    /\ script' = Tail(script)
    /\ UNCHANGED <<driver, alive, background_color, refresh, op, args, trace, result,
                   waiting, busyFor, polls, stuck, pin, bits, expanded, command,
                   address, refresh_at_call>>

\* the bus transmit fails: `?` returns the error; a failed new() returns no instance
SendFail ==
    /\ Running
    /\ IsFrame(Head(script))
    /\ result' = "err"
    /\ script' = <<>>
    /\ UNCHANGED <<driver, alive, background_color, refresh, op, args, trace,
                   waiting, busyFor, polls, stuck, pin, bits, expanded, command,
                   address, refresh_at_call>>

\* a failed assert!, unimplemented!()
DoPanic ==
    /\ Running
    /\ Head(script).kind = "panic"
    /\ result' = "panic"
    /\ trace' = Append(trace, Head(script))
    /\ script' = <<>>
    /\ UNCHANGED <<driver, alive, background_color, refresh, op, args, waiting,
                   busyFor, polls, stuck, pin, bits, expanded, command,
                   address, refresh_at_call>>

\* Ok(..) is returned
Return ==
    /\ result = "running"
    /\ script = <<>>
    /\ result' = "ok"
    /\ alive' = (alive \/ op = "new")
    /\ UNCHANGED <<driver, background_color, refresh, op, args, script, trace,
                   waiting, busyFor, polls, stuck, pin, bits, expanded, command,
                   address, refresh_at_call>>

\* the caller has the Result of the operation and goes on; the arguments it
\* lent are released, and the struct a failed new() built is dropped
CallerResumes ==
    /\ result \in {"ok", "err"}
    /\ result' = "idle"
    /\ op' = "none"
    /\ args' = NoArgs
    /\ trace' = <<>>
    /\ driver' = IF alive THEN driver ELSE "none"
    /\ refresh_at_call' = refresh
    /\ UNCHANGED <<alive, background_color, refresh, script, waiting, busyFor, polls,
                   stuck, pin, bits, expanded, command, address>>

Next ==
    \/ New
    \/ WakeUp
    \/ Sleep
    \/ UpdateFrame
    \/ UpdatePartialFrame
    \/ DisplayFrame
    \/ UpdateAndDisplayFrame
    \/ ClearFrame
    \/ SetBackgroundColor
    \/ SetLut
    \/ UpdateColorFrame
    \/ UpdateAchromaticFrame
    \/ UpdateChromaticFrame
    \/ DoReset
    \/ DoDelay
    \/ WaitBegin
    \/ WaitBeginStuck
    \/ PollBusy
    \/ PollIdle
    \/ SendOk
    \/ SendFail
    \/ DoPanic
    \/ Return
    \/ CallerResumes

Spec == Init /\ [][Next]_vars

(***************************************************************************)
(* Command::address of epd7in5_v3 applied to every pair of variants.       *)
(***************************************************************************)
InitCommand ==
    /\ driver = "none"
    /\ alive = FALSE
    /\ background_color = "White"
    /\ refresh = "Full"
    /\ op = "none"
    /\ args = NoArgs
    /\ script = <<>>
    /\ trace = <<>>
    /\ result = "idle"
    /\ waiting = FALSE
    /\ busyFor = 0
    /\ stuck = FALSE
    /\ pin = "low"
    /\ polls = 0
    /\ bits = 0
    /\ expanded = <<>>
    /\ command \in Commands \X Commands
    /\ address = <<>>
    /\ refresh_at_call = "Full"

\* cmd.address() for both variants
Address ==
    /\ address = <<>>
    /\ address' = <<address_of(command[1]), address_of(command[2])>>
    /\ UNCHANGED <<driver, alive, background_color, refresh, op, args, script,
                   trace, result, waiting, busyFor, stuck, pin, polls, bits,
                   expanded, command, refresh_at_call>>

NextCommand == Address

SpecCommand == InitCommand /\ [][NextCommand]_vars

(***************************************************************************)
(* The drivers on a panel whose busy line reads idle after every busy      *)
(* period and a bus whose every transmit returns: each step of an          *)
(* operation in progress is eventually taken.                              *)
(***************************************************************************)
Step ==
    \/ DoReset
    \/ DoDelay
    \/ WaitBegin
    \/ PollBusy
    \/ PollIdle
    \/ SendOk
    \/ SendFail
    \/ DoPanic
    \/ Return

NextLive ==
    \/ New
    \/ WakeUp
    \/ Sleep
    \/ UpdateFrame
    \/ UpdatePartialFrame
    \/ DisplayFrame
    \/ UpdateAndDisplayFrame
    \/ ClearFrame
    \/ SetBackgroundColor
    \/ SetLut
    \/ UpdateColorFrame
    \/ UpdateAchromaticFrame
    \/ UpdateChromaticFrame
    \/ Step
    \/ CallerResumes

SpecLive == Init /\ [][NextLive]_vars /\ WF_vars(Step)

(***************************************************************************)
(* expand_bits applied to every byte.                                      *)
(***************************************************************************)
InitExpand ==
    /\ driver = "none"
    /\ alive = FALSE
    /\ background_color = "White"
    /\ refresh = "Full"
    /\ op = "expand_bits"
    /\ args = NoArgs
    /\ script = <<>>
    /\ trace = <<>>
    /\ result = "idle"
    /\ waiting = FALSE
    /\ busyFor = 0
    /\ stuck = FALSE
    /\ pin = "low"
    /\ polls = 0
    /\ bits \in Byte
    /\ expanded = <<>>
    /\ command = <<>>
    /\ address = <<>>
    /\ refresh_at_call = "Full"

Expand ==
    /\ expanded = <<>>
    /\ expanded' = expand_bits(bits)
    /\ UNCHANGED <<driver, alive, background_color, refresh, op, args, script,
                   trace, result, waiting, busyFor, stuck, pin, polls, bits, command,
                   address, refresh_at_call>>

NextExpand == Expand

SpecExpand == InitExpand /\ [][NextExpand]_vars

(***************************************************************************)
(* Properties.                                                             *)
(***************************************************************************)
\* the 16-bit concatenation of two transmitted bytes, first byte high
Concat16(pair) == pair[1] * 256 + pair[2]

\* the byte packed from bits 0, 2, .., 14 of v
RECURSIVE EvenBitsFrom(_, _)
EvenBitsFrom(v, i) ==
    IF i > 7 THEN 0 ELSE Bit(v, 2 * i) * Pow2(i) + EvenBitsFrom(v, i + 1)

EvenBits(v) == EvenBitsFrom(v, 0)

\* positions of the command frames of command c in the trace
CmdAt(c) == {i \in 1 .. Len(trace) : trace[i].kind = "cmd" /\ trace[i].cmd = c}

\* the trace holds a frame at position i, and it is a data frame with bytes bs
DataIs(i, bs) == i <= Len(trace) => (trace[i].kind = "data" /\ trace[i].bytes = bs)

PartialV2 == driver = "Epd1in54" /\ op = "update_partial_frame"

Partial583 == driver = "Epd5in83" /\ op = "update_partial_frame"

Degenerate == args.rect.width = 0 \/ args.rect.height = 0

\* C1: for every byte b, expand_bits(b) is two bytes whose 16-bit concatenation
\* (first byte high) has bits 2i and 2i+1 equal to bit i of b, for i in 0..7;
\* bit 7 of b is in the first byte.
C1_ExpandDoublesEachBit ==
    expanded # <<>> =>
        /\ Len(expanded) = 2
        /\ expanded[1] \in Byte /\ expanded[2] \in Byte
        /\ \A i \in 0 .. 7 :
              /\ Bit(Concat16(expanded), 2 * i) = Bit(bits, i)
              /\ Bit(Concat16(expanded), 2 * i + 1) = Bit(bits, i)
        /\ Bit(expanded[1], 7) = Bit(bits, 7)
        /\ Bit(expanded[1], 6) = Bit(bits, 7)

C1_Witness == bits = 128 /\ expanded = <<192, 0>>

\* C2: round trip: packing bits 0, 2, .., 14 of the concatenation of
\* expand_bits(b), in order, gives b back, for all 256 bytes.
C2_ExpandRoundTrip ==
    expanded # <<>> => EvenBits(Concat16(expanded)) = bits

C2_Witness == bits = 165 /\ expanded # <<>> /\ EvenBits(Concat16(expanded)) = 165

\* C3 (as claimed): for every rectangle with width > 0 and height > 0 given to
\* Epd1in54 update_partial_frame, the data bytes of SetRamXAddressStartEndPosition
\* are x >> 3 and (x + width - 1) >> 3.
C3_XWindowAsClaimed ==
    (PartialV2 /\ ~Degenerate) =>
        \A i \in CmdAt("SetRamXAddressStartEndPosition") :
            DataIs(i + 1, <<args.rect.x \div 8,
                            (args.rect.x + args.rect.width - 1) \div 8>>)

\* C4 (as claimed): for the rectangle {0, 0, 200, 200} Epd1in54 transmits the
\* window xStartByte 0, xEndByte 24, yStart (0x00, 0x00), yEnd (0xC8, 0x00).
C4_FullWindowAsClaimed ==
    (PartialV2 /\ args.rect = Rect(0, 0, 200, 200)) =>
        /\ \A i \in CmdAt("SetRamXAddressStartEndPosition") : DataIs(i + 1, <<0, 24>>)
        /\ \A i \in CmdAt("SetRamYAddressStartEndPosition") :
              DataIs(i + 1, <<0, 0, 200, 0>>)

\* C5: a rectangle with width = 0 or height = 0 given to Epd1in54
\* update_partial_frame is rejected before any frame is transmitted: the
\* operation puts no frame on the bus and never returns a result.
C5_DegenerateWindowRejected ==
    (PartialV2 /\ Degenerate) =>
        /\ \A i \in 1 .. Len(trace) : ~IsFrame(trace[i])
        /\ result \in {"running", "panic"}
        /\ result = "running" => script # <<>>

C5_Witness ==
    /\ PartialV2
    /\ args.rect.width = 0 /\ args.rect.height > 0
    /\ result = "panic"
    /\ Len(trace) = 3

\* C6 (as claimed): for every rectangle in the panel given to Epd5in83
\* update_partial_frame, the horizontal end in the PartialWindow bytes
\* (hred_upper, hred_lower) is at least the byte column of the last pixel
\* column x + width - 1.
C6_HEndCoversAsClaimed ==
    (Partial583 /\ ~Degenerate) =>
        \A i \in CmdAt("PartialWindow") :
            i + 1 <= Len(trace) =>
                trace[i + 1].bytes[3] * 256 + trace[i + 1].bytes[4]
                    >= ((args.rect.x + args.rect.width - 1) \div 8) * 8

\* the cursor the running operation of Epd1in54 sets with set_ram_counter
CursorX == IF op = "update_partial_frame" THEN args.rect.x ELSE 0
CursorY == IF op = "update_partial_frame" THEN args.rect.y ELSE 0

\* C7: Epd1in54 set_ram_counter transmits SetRamXAddressCounter with the one
\* byte x >> 3, then SetRamYAddressCounter with the two bytes (y & 0xFF, y >> 8),
\* in that order; the X byte is the start byte of the address window.
C7_RamCounterBytes ==
    driver = "Epd1in54" =>
        /\ \A i \in CmdAt("SetRamXAddressCounter") :
              /\ DataIs(i + 1, <<CursorX \div 8>>)
              /\ i + 2 <= Len(trace) => trace[i + 2] = Cmd("SetRamYAddressCounter")
              /\ DataIs(i + 3, <<CursorY % 256, CursorY \div 256>>)
              /\ \A j \in CmdAt("SetRamXAddressStartEndPosition") :
                    (j < i /\ i + 1 <= Len(trace) /\ \A k \in (j + 1) .. (i - 1) :
                                                        trace[k].cmd # "SetRamXAddressCounter")
                        => trace[i + 1].bytes[1] = trace[j + 1].bytes[1]
        /\ \A i \in CmdAt("SetRamYAddressCounter") :
              i > 2 /\ trace[i - 2] = Cmd("SetRamXAddressCounter")
        /\ (op \in {"update_partial_frame", "update_frame", "clear_frame"}
            /\ result = "ok") => CmdAt("SetRamYAddressCounter") # {}

C7_Witness ==
    /\ PartialV2
    /\ result = "ok"
    /\ args.rect.x = 9 /\ args.rect.y = 1
    /\ \E i \in CmdAt("SetRamXAddressCounter") :
          trace[i + 1].bytes = <<1>> /\ trace[i + 3].bytes = <<1, 0>>

\* C8: frames are never inverted: the first frame after a reset is a command
\* frame, no operation starts with a data frame, and every data frame comes
\* right after the command frame it belongs to or after another data frame of
\* that command, with nothing in between.
C8_FramesNeverInverted ==
    /\ \A i \in 1 .. Len(trace) :
          IsDataFrame(trace[i]) => (i > 1 /\ IsFrame(trace[i - 1]))
    /\ \A i \in 1 .. Len(trace) :
          (IsFrame(trace[i]) /\ \A j \in 1 .. (i - 1) : ~IsFrame(trace[j]))
              => trace[i].kind = "cmd"
    /\ \A i \in 1 .. Len(trace), j \in 1 .. Len(trace) :
          (i < j /\ trace[i].kind = "reset" /\ IsFrame(trace[j])
           /\ \A k \in (i + 1) .. (j - 1) : ~IsFrame(trace[k]))
              => trace[j].kind = "cmd"
    /\ (Running /\ Len(trace) > 0 /\ IsDataFrame(Head(script)))
          => IsFrame(trace[Len(trace)])
    /\ (Running /\ trace = <<>>) => ~IsDataFrame(Head(script))

C8_Witness ==
    /\ driver = "Epd1in54b"
    /\ op = "update_frame"
    /\ result = "ok"
    /\ Len(args.buffer) = 2
    /\ \E i \in CmdAt("DataStartTransmission1") :
          IsDataFrame(trace[i + 1]) /\ IsDataFrame(trace[i + 2])

RamWriteCommands ==
    {"WriteRam", "WriteRam2", "DataStartTransmission1", "DataStartTransmission2"}

\* C9 (as claimed): in every driver, every operation that writes display RAM
\* has completed a wait_until_idle before it transmits a RAM-write command.
C9_WaitBeforeRamWriteAsClaimed ==
    \A i \in 1 .. Len(trace) :
        (trace[i].kind = "cmd" /\ trace[i].cmd \in RamWriteCommands)
            => \E j \in 1 .. (i - 1) : trace[j].kind = "wait"

\* C10: in each driver new() and wake_up() perform the hardware reset (10 ms
\* low, 10 ms after) before any frame is transmitted and before any busy-wait.
C10_ResetFirst ==
    op \in {"new", "wake_up"} =>
        /\ trace # <<>> => trace[1] = Reset(10, 10)
        /\ trace = <<>> => (~waiting /\ result = "running"
                            /\ Head(script) = Reset(10, 10))
        /\ \A i \in 2 .. Len(trace) : trace[i].kind # "reset"

C10_Witness ==
    /\ op = "wake_up"
    /\ driver = "Epd1in54"
    /\ result = "ok"
    /\ trace[1].kind = "reset"
    /\ trace[2].kind = "wait"
    /\ trace[3] = Cmd("SwReset")

\* the level at which the busy line of each panel reads idle
IdleReads == IF driver = "Epd1in54" THEN "low" ELSE "high"

\* C11: wait_until_idle returns only after the busy line has been sampled idle
\* under the driver's polarity (high for Epd1in54b and Epd5in83, low for
\* Epd1in54 v2); while the line reads busy each poll only counts down, and no
\* frame is transmitted before the poll that reads idle.
C11_WaitReturnsOnIdleSample ==
    [][/\ (waiting /\ ~waiting') =>
            /\ ~stuck
            /\ busyFor = 0
            /\ pin = IdleReads
            /\ Head(script).kind = "wait"
            /\ trace' = Append(trace, Head(script))
       /\ (waiting /\ waiting') =>
            /\ trace' = trace
            /\ script' = script
            /\ pin # IdleReads
            /\ ~stuck => (busyFor > 0 /\ busyFor' = busyFor - 1 /\ polls' = polls + 1)
       /\ (~waiting /\ waiting') => (polls' = 0 /\ trace' = trace)
       /\ (trace' # trace /\ trace' # <<>> /\ IsFrame(trace'[Len(trace')])) => ~waiting
      ]_vars

C11_Witness ==
    /\ driver = "Epd1in54"
    /\ waiting
    /\ polls = 2
    /\ busyFor = 0
    /\ pin = "low"
    /\ Len(trace) > 0

\* C12: the busy-wait has no timeout: on a busy line that never reports idle,
\* an operation that has reached wait_until_idle never returns a result and
\* transmits no further frame.
C12_StuckWaitNeverReturns ==
    /\ [](stuck => (waiting /\ result = "running" /\ script # <<>>))
    /\ [][(stuck /\ waiting) =>
            (stuck' /\ waiting' /\ result' = "running" /\ trace' = trace
             /\ script' = script)]_vars

C12_Witness ==
    /\ driver = "Epd5in83"
    /\ op = "display_frame"
    /\ stuck
    /\ waiting
    /\ trace = <<Cmd("DisplayRefresh")>>

\* the operations a driver implements
Implemented ==
    /\ ~(driver = "Epd1in54b" /\ op = "update_partial_frame")
    /\ ~(driver = "Epd5in83" /\ op = "set_lut")

Returned == result \in {"ok", "err"}

\* C13 as stated: on a panel that becomes idle and a bus that answers, every
\* implemented operation that was called returns to its caller.
C13_EveryOperationReturnsAsClaimed ==
    (result = "running" /\ Implemented) ~> Returned

\* C13: on a panel that becomes idle and a bus that answers, every implemented
\* operation that was called returns to its caller, except update_partial_frame
\* of Epd1in54 v2 on a rectangle of zero width or height, which stops at the
\* assertion of set_ram_area.
C13_EveryOperationEnds ==
    /\ (result = "running" /\ Implemented)
          ~> (Returned \/ (PartialV2 /\ Degenerate /\ result = "panic"))
    /\ [](result = "panic" => (~Implemented \/ (PartialV2 /\ Degenerate)))

C13_Witness ==
    /\ driver = "Epd5in83"
    /\ op = "update_partial_frame"
    /\ result = "ok"
    /\ Len(trace) = 11
    /\ trace[10].kind = "wait"
    /\ trace[11] = Cmd("PartialOut")

\* the frames of the trace from position i on
TraceFrom(i) == SubSeq(trace, i, Len(trace))

IsPrefix(p, q) == Len(p) <= Len(q) /\ SubSeq(q, 1, Len(p)) = p

\* the byte of the background colour the driver holds
BackgroundByte == IF background_color = "White" THEN 255 ELSE 0

\* the frames of set_ram_area and set_ram_counter
AddressSetupCommands ==
    {"SetRamXAddressStartEndPosition", "SetRamYAddressStartEndPosition",
     "SetRamXAddressCounter", "SetRamYAddressCounter"}

\* C14: clear_frame of Epd1in54 v2 sends, after the address setup, WriteRam
\* followed by one data frame of exactly 5000 bytes of the background colour
\* byte, then WriteRam2 followed by one data frame of exactly 5000 such bytes,
\* with no command frame in between and nothing after.
C14_ClearFrameFloods ==
    (driver = "Epd1in54" /\ op = "clear_frame") =>
        LET planes == <<Cmd("WriteRam"), [kind |-> "fill", cmd |-> "",
                                           bytes |-> <<BackgroundByte>>,
                                           n |-> 5000, tag |-> ""],
                        Cmd("WriteRam2"), [kind |-> "fill", cmd |-> "",
                                            bytes |-> <<BackgroundByte>>,
                                            n |-> 5000, tag |-> ""]>>
        IN  /\ \A i \in 1 .. Len(trace) :
                \/ trace[i].kind = "wait"
                \/ trace[i].kind = "cmd" /\ trace[i].cmd \in AddressSetupCommands
                \/ trace[i].kind = "data" /\ i > 1 /\ trace[i - 1].kind = "cmd"
                      /\ trace[i - 1].cmd \in AddressSetupCommands
                \/ \E j \in CmdAt("WriteRam") :
                      j <= i /\ IsPrefix(TraceFrom(j), planes)
            /\ \A j \in CmdAt("WriteRam") :
                  \A k \in 1 .. (j - 1) : trace[k].kind # "fill"
            /\ result = "ok" =>
                  \E j \in CmdAt("WriteRam") :
                      /\ TraceFrom(j) = planes
                      /\ CmdAt("SetRamYAddressCounter") # {}
                      /\ \A k \in CmdAt("SetRamYAddressCounter") : k < j

C14_Witness ==
    /\ driver = "Epd1in54"
    /\ op = "clear_frame"
    /\ result = "ok"
    /\ background_color = "Black"
    /\ Len(trace) > 4
    /\ trace[Len(trace)].kind = "fill"
    /\ trace[Len(trace)].n = 5000

\* C15: a bus transmit that fails on a frame ends the operation with that
\* error: the frame is not retried, no later frame is transmitted and no later
\* busy-wait is made in the operation, and a new() that fails returns no driver
\* instance.
C15_ErrorEndsOperation ==
    /\ [](result = "err" => (script = <<>> /\ ~waiting /\ (op = "new" => ~alive)))
    /\ [][/\ (result = "running" /\ script # <<>> /\ IsFrame(Head(script))
                 /\ script' # script)
              => \/ trace' = Append(trace, Head(script)) /\ script' = Tail(script)
                       /\ result' = "running"
                 \/ trace' = trace /\ script' = <<>> /\ result' = "err"
          /\ (result' = "err" /\ result # "err")
              => (result = "running" /\ script # <<>> /\ IsFrame(Head(script))
                  /\ trace' = trace)
          /\ result = "err"
              => \/ result' = "err" /\ trace' = trace /\ script' = <<>> /\ ~waiting'
                 \/ result' = "idle" /\ (op = "new" => (driver' = "none" /\ ~alive'))
         ]_vars

C15_Witness ==
    /\ op = "new"
    /\ driver = "Epd1in54b"
    /\ result = "err"
    /\ ~alive
    /\ Len(trace) >= 3
    /\ trace[Len(trace)].kind = "wait"

\* C16: for every variant of the Command enum of epd7in5_v3, address() is the
\* one-byte opcode declared for it (PanelSetting 0x00, DisplayRefresh 0x12),
\* and two different variants never have the same address.
C16_AddressIsOpcode ==
    address # <<>> =>
        /\ address[1] \in 0 .. 255
        /\ address[1] = Command[command[1]]
        /\ command[1] = "PanelSetting" => address[1] = 0
        /\ command[1] = "DisplayRefresh" => address[1] = 18
        /\ command[1] # command[2] => address[1] # address[2]

C16_Witness ==
    /\ command = <<"DisplayRefresh", "DualSpi">>
    /\ address = <<18, 21>>

\* C17 (as claimed): for every rectangle in the panel given to Epd5in83
\* update_partial_frame, the number of bytes flooded into the chromatic plane
\* after DataStartTransmission2 is ceil(width / 8) * height.
C17_ChromaticFloodAsClaimed ==
    (Partial583 /\ InPanel(driver, args.rect)) =>
        \A i \in CmdAt("DataStartTransmission2") :
            i + 1 <= Len(trace) =>
                /\ trace[i + 1].kind = "fill"
                /\ trace[i + 1].n
                      = ((args.rect.width + 7) \div 8) * args.rect.height

\* C18 (as claimed): for every x below WIDTH given to Epd5in83
\* update_partial_frame, the first two PartialWindow bytes read as
\* upper * 256 + lower give x rounded down to a multiple of 8, and the vertical
\* start and end bytes read the same way give y and y + height.
C18_WindowStartAsClaimed ==
    (Partial583 /\ args.rect.x < Epd5in83_WIDTH) =>
        \A i \in CmdAt("PartialWindow") :
            i + 1 <= Len(trace) =>
                LET b == trace[i + 1].bytes
                IN  /\ b[1] * 256 + b[2] = (args.rect.x \div 8) * 8
                    /\ b[5] * 256 + b[6] = args.rect.y
                    /\ b[7] * 256 + b[8] = args.rect.y + args.rect.height

\* the two bytes pair hold every bit of byte b twice, bit 7 first
Doubles(pair, b) ==
    /\ Len(pair) = 2
    /\ \A i \in 0 .. 7 :
          /\ Bit(Concat16(pair), 2 * i) = Bit(b, i)
          /\ Bit(Concat16(pair), 2 * i + 1) = Bit(b, i)

\* C19: update_frame of Epd1in54b with a buffer of n bytes transmits after
\* DataStartTransmission1 exactly 2n data bytes, the bit-doubled bytes of the
\* buffer in buffer order, then after DataStartTransmission2 exactly 5000 bytes
\* of the current background colour byte; clear_frame sends planes of 10000 and
\* 5000 bytes, the lengths update_frame sends for n = 5000.
C19_UpdateFramePlanes ==
    /\ (driver = "Epd1in54b" /\ op = "update_frame") =>
          LET n == Len(args.buffer)
          IN  /\ \A i \in CmdAt("DataStartTransmission1") :
                    \A k \in 1 .. n :
                        i + k <= Len(trace) =>
                            /\ trace[i + k].kind = "data"
                            /\ trace[i + k].n = 2
                            /\ Doubles(trace[i + k].bytes, args.buffer[k])
              /\ \A j \in CmdAt("DataStartTransmission2") :
                    /\ CmdAt("DataStartTransmission1") = {j - n - 1}
                    /\ j + 1 <= Len(trace) =>
                          /\ trace[j + 1].kind = "fill"
                          /\ trace[j + 1].bytes = <<BackgroundByte>>
                          /\ trace[j + 1].n = 5000
                          /\ Len(trace) = j + 1
              /\ result = "ok" =>
                    /\ CmdAt("DataStartTransmission2") # {}
                    /\ trace[Len(trace)].kind = "fill"
    /\ (driver = "Epd1in54b" /\ op = "clear_frame" /\ result = "ok") =>
          /\ \A i \in CmdAt("DataStartTransmission1") :
                trace[i + 1].kind = "fill" /\ trace[i + 1].n = 2 * 5000
          /\ \A j \in CmdAt("DataStartTransmission2") :
                trace[j + 1].kind = "fill" /\ trace[j + 1].n = 5000
          /\ CmdAt("DataStartTransmission1") # {}
          /\ CmdAt("DataStartTransmission2") # {}

C19_Witness ==
    /\ driver = "Epd1in54b"
    /\ op = "update_frame"
    /\ result = "ok"
    /\ background_color = "Black"
    /\ args.buffer = <<165, 0>>
    /\ \E i \in CmdAt("DataStartTransmission1") :
          /\ trace[i + 1].bytes = <<204, 51>>
          /\ trace[i + 2].bytes = <<0, 0>>
          /\ trace[i + 4].n = 5000

\* the trace holds a frame at position i, and it is a data frame of one byte
OneByteAt(i) ==
    i <= Len(trace) => (trace[i].kind = "data" /\ trace[i].n = 1
                        /\ Len(trace[i].bytes) = 1)

\* the frame at position i, where the trace holds one, is no data frame
NoDataAt(i) == i <= Len(trace) => ~IsDataFrame(trace[i])

\* C20: send_resolution transmits one command frame (ResolutionSetting on
\* Epd1in54b, TconResolution on Epd5in83) followed only by single-byte data
\* frames whose bytes in order give the panel size: on Epd5in83 the high and
\* low byte of 648 and the high and low byte of 480, on Epd1in54b the low byte
\* of 200 and the high and low byte of 200.
C20_SendResolutionFrames ==
    /\ driver = "Epd5in83" =>
          \A i \in CmdAt("TconResolution") :
              /\ \A k \in 1 .. 4 : OneByteAt(i + k)
              /\ DataIs(i + 1, <<2>>)
              /\ DataIs(i + 2, <<136>>)
              /\ DataIs(i + 3, <<1>>)
              /\ DataIs(i + 4, <<224>>)
              /\ i + 4 <= Len(trace) =>
                    /\ trace[i + 1].bytes[1] * 256 + trace[i + 2].bytes[1] = 648
                    /\ trace[i + 3].bytes[1] * 256 + trace[i + 4].bytes[1] = 480
              /\ NoDataAt(i + 5)
    /\ driver = "Epd1in54b" =>
          \A i \in CmdAt("ResolutionSetting") :
              /\ \A k \in 1 .. 3 : OneByteAt(i + k)
              /\ DataIs(i + 1, <<200>>)
              /\ DataIs(i + 2, <<0>>)
              /\ DataIs(i + 3, <<200>>)
              /\ NoDataAt(i + 4)
    /\ driver = "Epd1in54" =>
          CmdAt("TconResolution") \cup CmdAt("ResolutionSetting") = {}

C20_Witness ==
    /\ driver = "Epd5in83"
    /\ op = "new"
    /\ result = "ok"
    /\ \E i \in CmdAt("TconResolution") :
          /\ i + 5 <= Len(trace)
          /\ trace[i + 4] = Data(<<224>>)
          /\ trace[i + 5].kind = "cmd"

\* the command that starts the refresh of the panel of each driver
RefreshCommand == IF driver = "Epd1in54" THEN "MasterActivation" ELSE "DisplayRefresh"

\* every RAM-write frame of update_frame is in the trace before position r
RamWrittenBefore(r) ==
    LET n == Len(args.buffer)
    IN  IF driver = "Epd1in54"
        THEN \E i \in CmdAt("WriteRam") :
                i + 1 < r /\ trace[i + 1] = Data(args.buffer)
        ELSE IF driver = "Epd1in54b"
        THEN \E i \in CmdAt("DataStartTransmission1") :
                /\ i + n + 2 < r
                /\ \A k \in 1 .. n : trace[i + k].kind = "data"
                /\ trace[i + n + 1] = Cmd("DataStartTransmission2")
                /\ trace[i + n + 2].kind = "fill"
        ELSE \E i \in CmdAt("DataStartTransmission1") :
                /\ i + 3 < r
                /\ trace[i + 1] = Data(args.buffer)
                /\ trace[i + 2] = Cmd("DataStartTransmission2")
                /\ trace[i + 3].kind = "fill"

\* C21: in update_and_display_frame of every driver the refresh command
\* (MasterActivation on Epd1in54 v2, DisplayRefresh on Epd1in54b and Epd5in83)
\* is transmitted only after every RAM-write frame of update_frame has been
\* transmitted, once, and never when update_frame has failed.
C21_RefreshAfterRamWrite ==
    op = "update_and_display_frame" =>
        /\ \A r \in CmdAt(RefreshCommand) : RamWrittenBefore(r)
        /\ Cardinality(CmdAt(RefreshCommand)) <= 1
        /\ (result = "err" /\ ~RamWrittenBefore(Len(trace) + 1))
              => CmdAt(RefreshCommand) = {}
        /\ result = "ok" => CmdAt(RefreshCommand) # {}

C21_Witness ==
    /\ driver = "Epd1in54"
    /\ op = "update_and_display_frame"
    /\ result = "ok"
    /\ args.buffer = <<165, 0>>
    /\ CmdAt("MasterActivation") = {Len(trace) - 1}
    /\ \E i \in CmdAt("WriteRam") : i + 1 < Len(trace) - 1

\* C22: in Epd1in54 v2 every MasterActivation command frame (display_frame,
\* set_lut for Quick refresh) is immediately followed by the Nop command frame,
\* with no frame and no busy-wait in between; in display_frame it is preceded
\* by DisplayUpdateControl2 with 0xC7 when the refresh mode is Full and 0xCF
\* when it is Quick.
C22_MasterActivationThenNop ==
    driver = "Epd1in54" =>
        \A i \in CmdAt("MasterActivation") :
            /\ op \in {"display_frame", "update_and_display_frame", "set_lut"}
            /\ i < Len(trace) => trace[i + 1] = Cmd("Nop")
            /\ i = Len(trace) =>
                  \/ result = "running" /\ ~waiting /\ script # <<>>
                        /\ Head(script) = Cmd("Nop")
                  \/ result = "err"
            /\ op = "set_lut" => refresh = "Quick"
            /\ op \in {"display_frame", "update_and_display_frame"} =>
                  /\ i > 2
                  /\ trace[i - 2] = Cmd("DisplayUpdateControl2")
                  /\ refresh = "Full" => trace[i - 1] = Data(<<199>>)
                  /\ refresh = "Quick" => trace[i - 1] = Data(<<207>>)

C22_Witness ==
    /\ driver = "Epd1in54"
    /\ op = "display_frame"
    /\ refresh = "Quick"
    /\ result = "ok"
    /\ Len(trace) = 5
    /\ trace[3] = Data(<<207>>)
    /\ trace[4] = Cmd("MasterActivation")
    /\ trace[5] = Cmd("Nop")

\* C23 (as claimed): every update_partial_frame of Epd5in83 that has
\* transmitted PartialIn has also transmitted PartialOut when it has returned,
\* with success or with an error.
C23_PartialOutAsClaimed ==
    (Partial583 /\ result \in {"ok", "err"} /\ CmdAt("PartialIn") # {})
        => CmdAt("PartialOut") # {}

\* C24 (as claimed): in each driver every flood of clear_frame carries the byte
\* of the driver's current background colour.
C24_ClearWithBackgroundAsClaimed ==
    op = "clear_frame" =>
        \A i \in 1 .. Len(trace) :
            trace[i].kind = "fill" => trace[i].bytes = <<BackgroundByte>>

\* the step is the call of operation name
Calls(name) == result = "idle" /\ result' = "running" /\ op' = name

\* C25: the refresh mode of Epd1in54 v2 is Full after new() and is changed only
\* by set_lut(Some(r)), which sets it to r; set_lut(None) and every other
\* operation leave it unchanged, and set_lut transmits the LUT of the resulting
\* mode (full-update LUT for Full, partial-update LUT for Quick).
C25_RefreshModeFrame ==
    /\ [][driver' = "Epd1in54" =>
            /\ Calls("new") => refresh' = "Full"
            /\ (Calls("set_lut") /\ args'.refresh_rate # "None")
                  => refresh' = args'.refresh_rate
            /\ (Calls("set_lut") /\ args'.refresh_rate = "None")
                  => refresh' = refresh
            /\ refresh' # refresh
                  => (Calls("set_lut") /\ args'.refresh_rate = refresh')
         ]_vars
    /\ []((driver = "Epd1in54" /\ op = "new") => refresh = "Full")
    /\ []((driver = "Epd1in54" /\ op = "set_lut") =>
            /\ \A i \in 1 .. Len(trace) :
                  (trace[i].kind = "data" /\ trace[i].tag # "") =>
                      trace[i].tag = IF refresh = "Full" THEN "LUT_FULL_UPDATE"
                                     ELSE "LUT_PARTIAL_UPDATE"
            /\ result = "ok" =>
                  \E i \in CmdAt("WriteLutRegister") :
                      trace[i + 1].kind = "data" /\ trace[i + 1].tag # "")

C25_Witness ==
    /\ driver = "Epd1in54"
    /\ op = "set_lut"
    /\ args.refresh_rate = "Quick"
    /\ refresh_at_call = "Full"
    /\ refresh = "Quick"
    /\ result = "ok"
    /\ \E i \in CmdAt("WriteLutRegister") : trace[i + 1].tag = "LUT_PARTIAL_UPDATE"

\* C26 (as claimed): when set_lut(Some(r)) of Epd1in54 v2 has returned a bus
\* error, the stored refresh mode is the one the driver held before the call.
C26_RefreshKeptOnErrorAsClaimed ==
    (driver = "Epd1in54" /\ op = "set_lut" /\ args.refresh_rate # "None"
        /\ result = "err") => refresh = refresh_at_call

\* C27: in every driver the background colour is White after new();
\* set_background_color(c) makes it c, transmits no frame and makes no
\* busy-wait or reset; no other operation, failing or not, changes it; width()
\* and height() are the panel constants 200x200, 200x200 and 648x480.
C27_BackgroundColorFrame ==
    /\ [][/\ Calls("new") => background_color' = "White"
          /\ (result = "idle" /\ op' = "set_background_color") =>
                /\ background_color' = args'.color
                /\ result' = "ok"
                /\ trace' = <<>>
                /\ script' = <<>>
                /\ UNCHANGED <<waiting, pin, polls, busyFor, stuck>>
          /\ background_color' # background_color =>
                (result = "idle" /\ op' = "set_background_color")
         ]_vars
    /\ [](op = "new" => background_color = "White")
    /\ [](op = "set_background_color" =>
            (background_color = args.color /\ result = "ok" /\ trace = <<>>
             /\ script = <<>> /\ ~waiting))
    /\ [](/\ driver = "Epd1in54" => (width(driver) = 200 /\ height(driver) = 200)
          /\ driver = "Epd1in54b" => (width(driver) = 200 /\ height(driver) = 200)
          /\ driver = "Epd5in83" => (width(driver) = 648 /\ height(driver) = 480))

C27_Witness ==
    /\ driver = "Epd5in83"
    /\ op = "set_background_color"
    /\ args.color = "Black"
    /\ background_color = "Black"
    /\ result = "ok"
    /\ trace = <<>>
    /\ width(driver) = 648

====
